---- MODULE Spec2Model ----
(***************************************************************************)
(* The mode registry and API facade of ray.experimental.client             *)
(* (python/ray/experimental/client/__init__.py): the module globals        *)
(* _client_api, _server_api, _is_server and _test_server, the binding      *)
(* functions, the stash_api_for_tests context manager and the RayAPIStub   *)
(* methods connect, disconnect, __getattr__, is_connected and init.        *)
(*                                                                         *)
(* Every call is synchronous, so one action is one whole call.  A `with    *)
(* stash_api_for_tests(..)` block is two actions, its entry and its exit,  *)
(* and the calls made by its body are the actions taken in between.        *)
(***************************************************************************)
EXTENDS Integers, Sequences, FiniteSets, TLC

\* Worker objects the facade may construct in one run (guards Connect, Init).
MaxWorkers == 2
\* In-process test servers init() may start in one run.
MaxServers == 1
\* Nesting depth of `with stash_api_for_tests(..)` blocks.
MaxDepth == 2
\* Threads that call _set_client_api without serialization (SpecThreads).
MaxThreads == 2

(***************************************************************************)
(* Values.  Python objects are records [cls, id]; None is the record of    *)
(* class NoneType.  A and B are two APIImpl objects a caller binds         *)
(* directly; ClientAPI(w) is the object connect() builds around Worker w.  *)
(***************************************************************************)
None == [cls |-> "NoneType", id |-> 0]
APIImpl(n) == [cls |-> "APIImpl", id |-> n]
A == APIImpl(1)
B == APIImpl(2)
ClientAPI(w) == [cls |-> "ClientAPI", id |-> w]

\* What a caller may pass as `val: Optional[APIImpl]`.
Vals == {None, A, B}
\* The calls of the sequential process pass None or one implementation per
\* slot (the code tests val against nothing, and _client_api against None
\* only); connect() adds a ClientAPI of its own per Worker.
ClientVals == {None, A}
ServerVals == {None, B}

\* Values of os.environ.get("RAY_TEST_CLIENT_MODE"); Unset is the missing key.
Unset == "<unset>"
EnvValues == {"1", "true", Unset}

\* What a call ends with: NoError (it returned) or the exception it raised.
NoError == "returned"
DuplicateClient == "Exception: Trying to set more than one client API"
DuplicateServer == "Exception: Trying to set more than one server API"
AttributeError == "AttributeError: 'NoneType' object has no attribute"
NotImplementedError == "NotImplementedError: Please call ray.connect() in client mode"
CloseError == "exception raised by _client_api.close()"
BodyError == "exception raised by the with-block body"

VARIABLES
    client_api,    \* _client_api
    server_api,    \* _server_api
    is_server,     \* _is_server
    test_server,   \* _test_server: 0 is None, n > 0 the n-th server started
    scopes,        \* the open stash_api_for_tests blocks, innermost last:
                   \* the generator's frame, and as history the argument
                   \* and the value of _is_server when it was entered
    workers,       \* number of Worker objects constructed so far
    live,          \* the Workers constructed and not closed
    lastOp,        \* history: the last call, its argument and how it ended
    client_binds,  \* history: None -> set changes of _client_api since the
                   \* last reset_api() (or the start), counted up to 2
    server_binds,  \* history: the same for _server_api
    last_bind,     \* history: the slot of the last bind that succeeded since
                   \* the last reset_api(), "none" if there was none
    facade_only,   \* history: only connect, disconnect and init were called
    pc,            \* per thread: the line of _set_client_api it is at
    tval,          \* per thread: the val it passed
    terr,          \* per thread: how its call ended
    overlapped,    \* history: a call began while another was in progress
    overwritten    \* history: line 59 stored over a client that was set

threads == <<pc, tval, terr, overlapped, overwritten>>

vars == <<client_api, server_api, is_server, test_server, scopes, workers,
          live, lastOp, client_binds, server_binds, last_bind, facade_only,
          pc, tval, terr, overlapped, overwritten>>

Threads == 1 .. MaxThreads

registry == <<client_api, server_api, is_server>>

Op(op, arg, err, ret, closed) ==
    [op |-> op, arg |-> arg, err |-> err, ret |-> ret, closed |-> closed]

\* History counter of a slot's None -> set changes ("2" stands for 2 or more).
Bump(n, before, after) ==
    IF before = None /\ after # None THEN (IF n < 2 THEN n + 1 ELSE 2) ELSE n

(***************************************************************************)
(* The code, function by function, as operators on the current state.      *)
(***************************************************************************)

\* A _set_client_api that forgets line 60, the write of _is_server.
set_client_api_keeps_flag(val) ==
    IF client_api # None
    THEN [client_api |-> client_api, is_server |-> is_server,
          err |-> DuplicateClient]
    ELSE [client_api |-> val, is_server |-> is_server, err |-> NoError]

\* A _set_client_api without its check: a second bind overwrites the first.
set_client_api_overwrite(val) ==
    [client_api |-> val, is_server |-> FALSE, err |-> NoError]

\* _set_client_api(val): the globals after the call and how it ended.
set_client_api(val) ==
    IF client_api # None
    THEN [client_api |-> client_api, is_server |-> is_server,
          err |-> DuplicateClient]
    ELSE [client_api |-> val, is_server |-> FALSE, err |-> NoError]

\* A _set_server_api without its check.
set_server_api_overwrite(val) ==
    [server_api |-> val, is_server |-> TRUE, err |-> NoError]

\* A _set_client_api whose line 57 never finds the slot set.
set_client_api_check_skipped == FALSE

\* _set_client_api, line 57 alone: the test a thread makes before it stores.
set_client_api_check == client_api # None

\* _set_server_api(val)
set_server_api(val) ==
    IF server_api # None
    THEN [server_api |-> server_api, is_server |-> is_server,
          err |-> DuplicateServer]
    ELSE [server_api |-> val, is_server |-> TRUE, err |-> NoError]

\* A reset_api that forgets one of the globals.
reset_api_keeps_server ==
    [client_api |-> None, server_api |-> server_api, is_server |-> FALSE]

\* reset_api()
reset_api ==
    [client_api |-> None, server_api |-> None, is_server |-> FALSE]

\* _get_client_api()
get_client_api == client_api

\* RayAPIStub.__getattr__(key): the object whose attribute is returned, or
\* the AttributeError that getattr(None, key) raises.
getattr_stub ==
    LET api == get_client_api
    IN  IF api = None
        THEN [err |-> AttributeError, api |-> None]
        ELSE [err |-> NoError, api |-> api]

\* RayAPIStub.is_connected()
is_connected == client_api # None

\* An _is_client_test_env that takes any value that is set as true.
is_client_test_env_any_value(env) == env # Unset

\* _is_client_test_env()
is_client_test_env(env) == env = "1"

\* A stash_api_for_tests that saves _is_server after overriding it.
stash_enter_saves_late(in_test) ==
    [frame |-> [in_test |-> in_test,
                is_server |-> IF in_test THEN TRUE ELSE is_server],
     is_server |-> IF in_test THEN TRUE ELSE is_server]

\* stash_api_for_tests(in_test), up to its yield: the frame of the generator
\* (its argument and its local is_server) and the global _is_server.
stash_enter(in_test) ==
    [frame |-> [in_test |-> in_test, is_server |-> is_server],
     is_server |-> IF in_test THEN TRUE ELSE is_server]

\* A stash_api_for_tests without try/finally: a raising body skips the restore.
stash_exit_no_finally(frame, exc) ==
    [is_server |-> IF frame.in_test /\ exc = NoError
                   THEN frame.is_server ELSE is_server,
     err |-> exc]

\* stash_api_for_tests, from the yield on: the finally clause runs whether
\* the body returned (exc = NoError) or raised, and an exception of the body
\* is raised again after it.
stash_exit(frame, exc) ==
    [is_server |-> IF frame.in_test THEN frame.is_server ELSE is_server,
     err |-> exc]

\* A disconnect that closes the client and leaves it bound.
disconnect_keeps_binding(close_raises) ==
    IF client_api # None
    THEN [client_api |-> client_api, closed |-> <<client_api>>,
          err |-> IF close_raises THEN CloseError ELSE NoError]
    ELSE [client_api |-> None, closed |-> <<>>, err |-> NoError]

\* A disconnect without its None check: it calls close() on None.
disconnect_unguarded(close_raises) ==
    IF client_api = None \/ close_raises
    THEN [client_api |-> client_api, closed |-> <<client_api>>,
          err |-> IF client_api = None THEN AttributeError ELSE CloseError]
    ELSE [client_api |-> None, closed |-> <<client_api>>, err |-> NoError]

\* A disconnect that clears the slot in a finally clause around close().
disconnect_clears_anyway(close_raises) ==
    IF client_api # None
    THEN [client_api |-> None, closed |-> <<client_api>>,
          err |-> IF close_raises THEN CloseError ELSE NoError]
    ELSE [client_api |-> None, closed |-> <<>>, err |-> NoError]

\* RayAPIStub.disconnect(); close_raises is whether _client_api.close() does.
disconnect(close_raises) ==
    IF client_api # None
    THEN IF close_raises
         THEN [client_api |-> client_api, closed |-> <<client_api>>,
               err |-> CloseError]
         ELSE [client_api |-> None, closed |-> <<client_api>>,
               err |-> NoError]
    ELSE [client_api |-> None, closed |-> <<>>, err |-> NoError]

\* RayAPIStub.connect(conn_str): Worker w is constructed first, then bound.
connect(w) == set_client_api(ClientAPI(w))

\* ray_client_server.init_and_serve("localhost:50051", test_mode=True):
\* starts an in-process server and returns (handle, address_info).
init_and_serve == [handle |-> test_server + 1, address_info |-> "address_info"]

\* An init that looks at the client slot before it starts the server.
init_checks_first(env, w) ==
    IF is_client_test_env(env)
    THEN IF client_api # None
         THEN [test_server |-> test_server, started |-> FALSE,
               client_api |-> client_api, is_server |-> is_server,
               err |-> DuplicateClient, ret |-> "None"]
         ELSE [test_server |-> init_and_serve.handle, started |-> TRUE,
               client_api |-> ClientAPI(w), is_server |-> FALSE,
               err |-> NoError, ret |-> init_and_serve.address_info]
    ELSE [test_server |-> test_server, started |-> FALSE,
          client_api |-> client_api, is_server |-> is_server,
          err |-> NotImplementedError, ret |-> "None"]

\* RayAPIStub.init() with RAY_TEST_CLIENT_MODE = env, w the next Worker.
init(env, w) ==
    IF is_client_test_env(env)
    THEN LET s == init_and_serve
             c == connect(w)
         IN  [test_server |-> s.handle, started |-> TRUE,
              client_api |-> c.client_api, is_server |-> c.is_server,
              err |-> c.err,
              ret |-> IF c.err = NoError THEN s.address_info ELSE "None"]
    ELSE [test_server |-> test_server, started |-> FALSE,
          client_api |-> client_api, is_server |-> is_server,
          err |-> NotImplementedError, ret |-> "None"]

\* The Workers left open by a call that invoked close() on `closed`.
Release(l, d) ==
    IF d.err = NoError /\ d.closed # <<>> /\ d.closed[1].cls = "ClientAPI"
    THEN l \ {d.closed[1].id}
    ELSE l

(***************************************************************************)
(* The state machine.                                                      *)
(***************************************************************************)
Init ==
    /\ client_api = None
    /\ server_api = None
    /\ is_server = FALSE
    /\ test_server = 0
    /\ scopes = <<>>
    /\ workers = 0
    /\ live = {}
    /\ lastOp = Op("import", "None", NoError, "None", <<>>)
    /\ client_binds = 0
    /\ server_binds = 0
    /\ last_bind = "none"
    /\ facade_only = TRUE
    /\ pc = [t \in Threads |-> "idle"]
    /\ tval = [t \in Threads |-> None]
    /\ terr = [t \in Threads |-> NoError]
    /\ overlapped = FALSE
    /\ overwritten = FALSE

\* The slot of the last successful bind, after a bind into `slot` ended err.
Bound(slot, err) == IF err = NoError THEN slot ELSE last_bind

SetClient(val) ==
    LET r == set_client_api(val)
    IN  /\ client_api' = r.client_api
        /\ is_server' = r.is_server
        /\ lastOp' = Op("_set_client_api", val, r.err, "None", <<>>)
        /\ client_binds' = Bump(client_binds, client_api, r.client_api)
        /\ last_bind' = Bound("client", r.err)
        /\ facade_only' = FALSE
        /\ UNCHANGED <<server_api, test_server, scopes, workers, live,
                       server_binds>>
        /\ UNCHANGED threads

SetServer(val) ==
    LET r == set_server_api(val)
    IN  /\ server_api' = r.server_api
        /\ is_server' = r.is_server
        /\ lastOp' = Op("_set_server_api", val, r.err, "None", <<>>)
        /\ server_binds' = Bump(server_binds, server_api, r.server_api)
        /\ last_bind' = Bound("server", r.err)
        /\ facade_only' = FALSE
        /\ UNCHANGED <<client_api, test_server, scopes, workers, live,
                       client_binds>>
        /\ UNCHANGED threads

Reset ==
    LET r == reset_api
    IN  /\ client_api' = r.client_api
        /\ server_api' = r.server_api
        /\ is_server' = r.is_server
        /\ lastOp' = Op("reset_api", "None", NoError, "None", <<>>)
        /\ client_binds' = 0
        /\ server_binds' = 0
        /\ last_bind' = "none"
        /\ facade_only' = FALSE
        /\ UNCHANGED <<test_server, scopes, workers, live>>
        /\ UNCHANGED threads

Connect ==
    /\ workers < MaxWorkers
    /\ LET w == workers + 1
           r == connect(w)
       IN  /\ workers' = w
           /\ live' = live \cup {w}
           /\ client_api' = r.client_api
           /\ is_server' = r.is_server
           /\ lastOp' = Op("connect", "None", r.err, "None", <<>>)
           /\ client_binds' = Bump(client_binds, client_api, r.client_api)
           /\ last_bind' = Bound("client", r.err)
    /\ UNCHANGED <<server_api, test_server, scopes, server_binds, facade_only>>
    /\ UNCHANGED threads

\* A disconnect() that clears the registry with reset_api().
Disconnect_resets(close_raises) ==
    LET d == disconnect(close_raises)
        r == reset_api
    IN  /\ client_api' = d.client_api
        /\ server_api' = IF d.err = NoError THEN r.server_api ELSE server_api
        /\ is_server' = IF d.err = NoError THEN r.is_server ELSE is_server
        /\ live' = Release(live, d)
        /\ lastOp' = Op("disconnect", "None", d.err, "None", d.closed)
        /\ UNCHANGED <<test_server, scopes, workers, client_binds,
                       server_binds, last_bind, facade_only>>
        /\ UNCHANGED threads

Disconnect(close_raises) ==
    LET d == disconnect(close_raises)
    IN  /\ client_api' = d.client_api
        /\ live' = Release(live, d)
        /\ lastOp' = Op("disconnect", "None", d.err, "None", d.closed)
        /\ UNCHANGED <<server_api, is_server, test_server, scopes, workers,
                       client_binds, server_binds, last_bind, facade_only>>
        /\ UNCHANGED threads

InitStub(env) ==
    /\ is_client_test_env(env) => workers < MaxWorkers /\ test_server < MaxServers
    /\ LET w == workers + 1
           r == init(env, w)
       IN  /\ test_server' = r.test_server
           /\ workers' = IF r.started THEN w ELSE workers
           /\ live' = IF r.started THEN live \cup {w} ELSE live
           /\ client_api' = r.client_api
           /\ is_server' = r.is_server
           /\ lastOp' = Op("init", env, r.err, r.ret, <<>>)
           /\ client_binds' = Bump(client_binds, client_api, r.client_api)
           /\ last_bind' = IF r.started THEN Bound("client", r.err)
                           ELSE last_bind
    /\ UNCHANGED <<server_api, scopes, server_binds, facade_only>>
    /\ UNCHANGED threads

EnterScope(in_test) ==
    /\ Len(scopes) < MaxDepth
    /\ LET r == stash_enter(in_test)
       IN  /\ scopes' = Append(scopes, [frame |-> r.frame, in_test |-> in_test,
                                        entered |-> is_server])
           /\ is_server' = r.is_server
           /\ lastOp' = Op("stash_enter", in_test, NoError, "None", <<>>)
    /\ facade_only' = FALSE
    /\ UNCHANGED <<client_api, server_api, test_server, workers, live,
                   client_binds, server_binds, last_bind>>
    /\ UNCHANGED threads

\* A stash_api_for_tests that drops the yielded _server_api on exit.
ExitScope_drops_server(exc) ==
    /\ scopes # <<>>
    /\ LET top == scopes[Len(scopes)]
           r == stash_exit(top.frame, exc)
       IN  /\ scopes' = SubSeq(scopes, 1, Len(scopes) - 1)
           /\ is_server' = r.is_server
           /\ server_api' = IF top.in_test THEN None ELSE server_api
           /\ lastOp' = Op("stash_exit", [exc |-> exc, block |-> top], r.err,
                         "None", <<>>)
    /\ facade_only' = FALSE
    /\ UNCHANGED <<client_api, test_server, workers, live,
                   client_binds, server_binds, last_bind>>
    /\ UNCHANGED threads

ExitScope(exc) ==
    /\ scopes # <<>>
    /\ LET top == scopes[Len(scopes)]
           r == stash_exit(top.frame, exc)
       IN  /\ scopes' = SubSeq(scopes, 1, Len(scopes) - 1)
           /\ is_server' = r.is_server
           /\ lastOp' = Op("stash_exit", [exc |-> exc, block |-> top], r.err,
                         "None", <<>>)
    /\ facade_only' = FALSE
    /\ UNCHANGED <<client_api, server_api, test_server, workers, live,
                   client_binds, server_binds, last_bind>>
    /\ UNCHANGED threads

Next ==
    \/ \E val \in ClientVals : SetClient(val)
    \/ \E val \in ServerVals : SetServer(val)
    \/ Reset
    \/ Connect
    \/ \E close_raises \in BOOLEAN : Disconnect(close_raises)
    \/ \E env \in EnvValues : InitStub(env)
    \/ \E in_test \in BOOLEAN : EnterScope(in_test)
    \/ \E exc \in {NoError, BodyError} : ExitScope(exc)

Spec == Init /\ [][Next]_vars

(***************************************************************************)
(* Threads calling _set_client_api with no lock around it.  The module has *)
(* none, and the interpreter can switch threads between the load of        *)
(* _client_api at line 57 and the stores at lines 59 and 60, so each line  *)
(* is a step of its own.                                                   *)
(***************************************************************************)
InProgress(t) == pc[t] \in {"line57", "line59", "line60"}

Call(t, val) ==
    /\ pc[t] = "idle"
    /\ pc' = [pc EXCEPT ![t] = "line57"]
    /\ tval' = [tval EXCEPT ![t] = val]
    /\ overlapped' = (overlapped \/ \E u \in Threads \ {t} : InProgress(u))
    /\ UNCHANGED <<client_api, server_api, is_server, test_server, scopes,
                   workers, live, lastOp, client_binds, server_binds,
                   last_bind, facade_only, terr, overwritten>>

Line57(t) ==
    /\ pc[t] = "line57"
    /\ IF set_client_api_check
       THEN /\ pc' = [pc EXCEPT ![t] = "done"]
            /\ terr' = [terr EXCEPT ![t] = DuplicateClient]
       ELSE /\ pc' = [pc EXCEPT ![t] = "line59"]
            /\ terr' = terr
    /\ UNCHANGED <<client_api, server_api, is_server, test_server, scopes,
                   workers, live, lastOp, client_binds, server_binds,
                   last_bind, facade_only, tval, overlapped, overwritten>>

Line59(t) ==
    /\ pc[t] = "line59"
    /\ client_api' = tval[t]
    /\ overwritten' = (overwritten \/ client_api # None)
    /\ pc' = [pc EXCEPT ![t] = "line60"]
    /\ UNCHANGED <<server_api, is_server, test_server, scopes, workers, live,
                   lastOp, client_binds, server_binds, last_bind,
                   facade_only, tval, terr, overlapped>>

Line60(t) ==
    /\ pc[t] = "line60"
    /\ is_server' = FALSE
    /\ pc' = [pc EXCEPT ![t] = "done"]
    /\ UNCHANGED <<client_api, server_api, test_server, scopes, workers,
                   live, lastOp, client_binds, server_binds, last_bind,
                   facade_only, tval, terr, overlapped, overwritten>>

NextThreads ==
    \/ \E t \in Threads, val \in Vals : Call(t, val)
    \/ \E t \in Threads : Line57(t)
    \/ \E t \in Threads : Line59(t)
    \/ \E t \in Threads : Line60(t)

SpecThreads == Init /\ [][NextThreads]_vars

(***************************************************************************)
(* Claims.                                                                 *)
(***************************************************************************)
Fresh == registry = <<None, None, FALSE>> /\ scopes = <<>>

\* C1: _set_client_api, and connect which calls it, invoked while
\* _client_api is set raises the duplicate-client exception;
\* _set_server_api invoked while _server_api is set raises the
\* duplicate-server exception; in both cases _client_api, _server_api and
\* _is_server are exactly what they were before the call.
C1_DuplicateBindRejected ==
    [][ /\ (lastOp'.op \in {"_set_client_api", "connect"} /\ client_api # None)
            => (lastOp'.err = DuplicateClient /\ registry' = registry)
        /\ (lastOp'.op = "_set_server_api" /\ server_api # None)
            => (lastOp'.err = DuplicateServer /\ registry' = registry) ]_vars

C1_Witness ==
    /\ lastOp.op = "connect"
    /\ lastOp.err = DuplicateClient
    /\ client_api = A
    /\ server_api = B

\* C2: reset_api() can be called in every state, never raises, and leaves
\* _client_api and _server_api None and _is_server False; calling it again
\* in the state it leaves gives that same state; and attribute access on the
\* stub right after it fails as unbound.
C2_ResetClears ==
    /\ ENABLED Reset
    /\ lastOp.op = "reset_api" =>
         /\ lastOp.err = NoError
         /\ registry = <<None, None, FALSE>>
         /\ <<reset_api.client_api, reset_api.server_api, reset_api.is_server>>
              = registry
         /\ getattr_stub.err = AttributeError

C2_Witness ==
    /\ lastOp.op = "reset_api"
    /\ scopes # <<>>
    /\ live # {}
    /\ test_server > 0

\* C3: when both _client_api and _server_api are set, attribute access on
\* the stub is forwarded to _server_api if _is_server and to _client_api
\* otherwise.
C3_ResolveFollowsFlag ==
    (client_api # None /\ server_api # None) =>
        getattr_stub.api = (IF is_server THEN server_api ELSE client_api)

\* C4: when exactly one of _client_api and _server_api is set, attribute
\* access on the stub is forwarded to that one, whatever _is_server is; with
\* only _server_api set it does not fail as unbound.
C4_SingleSlotResolves ==
    /\ (client_api # None /\ server_api = None) =>
           (getattr_stub.err = NoError /\ getattr_stub.api = client_api)
    /\ (client_api = None /\ server_api # None) =>
           (getattr_stub.err = NoError /\ getattr_stub.api = server_api)

\* C5: a `with stash_api_for_tests(True)` block entered while _is_server is
\* False leaves _is_server False when it exits, whether its body returned or
\* raised; and the caller gets the body's exception (none if it returned),
\* in the state where the flag is already restored.
C5_OverrideRestored ==
    (/\ lastOp.op = "stash_exit"
     /\ lastOp.arg.block.in_test
     /\ lastOp.arg.block.entered = FALSE)
    => (is_server = FALSE /\ lastOp.err = lastOp.arg.exc)

C5_Witness ==
    /\ lastOp.op = "stash_exit"
    /\ lastOp.arg.block.in_test
    /\ lastOp.arg.block.entered = FALSE
    /\ lastOp.err = BodyError
    /\ server_binds = 1
    /\ is_server = FALSE

\* C6: from a fresh registry, after _set_client_api(A) the stub forwards to
\* A; after a following _set_server_api(B) it forwards to B; inside a
\* `with stash_api_for_tests(False)` block entered then it forwards to A;
\* and after that block exits it forwards to B again.  Each line is one step
\* of the scenario, taken from the state the steps before it lead to.
C6_AfterSetClient ==
    /\ client_api = A /\ server_api = None /\ is_server = FALSE
    /\ scopes = <<>>
    /\ lastOp.op = "_set_client_api" /\ lastOp.err = NoError

C6_AfterSetServer ==
    /\ client_api = A /\ server_api = B /\ is_server = TRUE
    /\ scopes = <<>>
    /\ lastOp.op = "_set_server_api" /\ lastOp.err = NoError

C6_InsideScope ==
    /\ client_api = A /\ server_api = B
    /\ Len(scopes) = 1 /\ scopes[1].in_test = FALSE /\ scopes[1].entered = TRUE
    /\ lastOp.op = "stash_enter"

C6_Scenario ==
    [][ /\ (Fresh /\ lastOp'.op = "_set_client_api" /\ lastOp'.arg = A)
            => getattr_stub' = [err |-> NoError, api |-> A]
        /\ (C6_AfterSetClient /\ lastOp'.op = "_set_server_api" /\ lastOp'.arg = B)
            => getattr_stub' = [err |-> NoError, api |-> B]
        /\ (C6_AfterSetServer /\ lastOp'.op = "stash_enter" /\ lastOp'.arg = FALSE)
            => getattr_stub' = [err |-> NoError, api |-> A]
        /\ (C6_InsideScope /\ lastOp'.op = "stash_exit")
            => getattr_stub' = [err |-> NoError, api |-> B] ]_vars

C10_SetAtMostOnce == client_binds <= 1 /\ server_binds <= 1

\* C10, amended: between two resets _server_api goes from None to set at
\* most once, and a slot that is set is never overwritten: _server_api
\* changes only by reset_api() and _client_api only by being cleared, by
\* disconnect() or reset_api(); _client_api can then be set again.
C10_NeverOverwritten ==
    /\ [](server_binds <= 1)
    /\ [][ /\ server_api # None =>
                \/ server_api' = server_api
                \/ server_api' = None /\ lastOp'.op = "reset_api"
           /\ client_api # None =>
                \/ client_api' = client_api
                \/ client_api' = None
                     /\ lastOp'.op \in {"disconnect", "reset_api"} ]_vars

C10_Witness ==
    /\ client_binds = 2
    /\ server_binds = 1
    /\ lastOp.op = "connect"
    /\ lastOp.err = NoError

\* C11: a process that calls only connect(), disconnect() and init() holds
\* at most one Worker that is constructed and not closed, and every such
\* Worker is the one _client_api wraps, also after a connect() that raised
\* the duplicate-client exception.
C11_OneLiveConnection ==
    facade_only =>
        /\ Cardinality(live) <= 1
        /\ \A w \in live : client_api = ClientAPI(w)

\* C12, as claimed: outside any stash_api_for_tests block, _is_server is
\* True exactly when the last bind that succeeded since the last reset_api()
\* was _set_server_api, and False when it was _set_client_api / connect or
\* when there was none.
C12_FlagFollowsLastBind ==
    scopes = <<>> => (is_server <=> last_bind = "server")

\* C12, amended: that relation holds right after every bind that succeeded
\* and after every reset_api(), and every call keeps it except the entry and
\* the exit of a stash_api_for_tests(True) block; calls of failed binds and
\* of disconnect() leave _is_server as it was.
C12_StashOp ==
    \/ lastOp'.op = "stash_enter" /\ lastOp'.arg
    \/ lastOp'.op = "stash_exit" /\ lastOp'.arg.block.in_test

C12_FlagFollowsLastBindUntilStash ==
    [][ /\ ((/\ lastOp'.op \in {"_set_client_api", "_set_server_api",
                               "connect", "init"}
             /\ lastOp'.err = NoError)
            \/ lastOp'.op = "reset_api")
            => (is_server' <=> last_bind' = "server")
        /\ ((is_server <=> last_bind = "server") /\ ~C12_StashOp)
            => (is_server' <=> last_bind' = "server")
        /\ ((/\ lastOp'.op \in {"_set_client_api", "_set_server_api",
                               "connect", "init"}
             /\ lastOp'.err # NoError)
            \/ lastOp'.op = "disconnect")
            => (is_server' = is_server /\ last_bind' = last_bind) ]_vars

C12_Witness ==
    /\ scopes = <<>>
    /\ lastOp.op = "_set_server_api"
    /\ lastOp.err = DuplicateServer
    /\ client_api = A
    /\ last_bind = "client"
    /\ is_server = FALSE

\* C13, as claimed: for either argument of stash_api_for_tests and whatever
\* the body did, _is_server right after the block exits is the value it had
\* right before the block was entered.
C13_ExitRestoresEntryValue ==
    lastOp.op = "stash_exit" => is_server = lastOp.arg.block.entered

\* C13, amended: that holds for stash_api_for_tests(True), nested blocks
\* included; the exit of stash_api_for_tests(False) writes nothing, so
\* _is_server is then what the body left.
C13_ExitRestoresWhenInTest ==
    [][ lastOp'.op = "stash_exit" =>
          IF lastOp'.arg.block.in_test
          THEN is_server' = lastOp'.arg.block.entered
          ELSE is_server' = is_server ]_vars

C13_Witness ==
    /\ lastOp.op = "stash_exit"
    /\ lastOp.arg.block.in_test
    /\ lastOp.arg.block.entered = FALSE
    /\ lastOp.err = NoError
    /\ Len(scopes) = 1
    /\ last_bind = "server"
    /\ is_server = FALSE

\* C14: the entry and the exit of a stash_api_for_tests block, with either
\* argument and whether the body returned or raised, leave _client_api and
\* _server_api as they were.
C14_StashKeepsBindings ==
    [][ lastOp'.op \in {"stash_enter", "stash_exit"} =>
          (client_api' = client_api /\ server_api' = server_api) ]_vars

C14_Witness ==
    /\ lastOp.op = "stash_exit"
    /\ lastOp.arg.block.in_test
    /\ lastOp.err = BodyError
    /\ client_api = A
    /\ server_api = B

\* C15: a _server_api that is set changes only by reset_api(); in particular
\* a disconnect() that returns with a server bound leaves the process with
\* that server bound and no client.
C15_ServerStaysBound ==
    [][ /\ (server_api # None /\ lastOp'.op # "reset_api")
            => server_api' = server_api
        /\ (/\ lastOp'.op = "disconnect" /\ lastOp'.err = NoError
            /\ server_api # None)
            => (client_api' = None /\ server_api' = server_api) ]_vars

C15_Witness ==
    /\ lastOp.op = "disconnect"
    /\ lastOp.err = NoError
    /\ lastOp.closed = <<ClientAPI(1)>>
    /\ client_api = None
    /\ server_api = B

\* C16: _set_client_api takes no lock.  Calls that do not overlap never
\* overwrite a client that is set, and at most one of them that passes an
\* implementation returns without the duplicate-client exception; the
\* witness is the interleaving of two overlapping calls on the empty slot in
\* which both return without it and the second store replaces the first.
Returned(t) == pc[t] = "done" /\ terr[t] = NoError

C16_SerializedNeverOverwrites ==
    ~overlapped =>
        /\ ~overwritten
        /\ Cardinality({t \in Threads : Returned(t) /\ tval[t] # None}) <= 1

C16_Witness ==
    /\ overlapped
    /\ overwritten
    /\ Returned(1) /\ Returned(2)
    /\ tval[1] = A /\ tval[2] = B
    /\ client_api = B

\* C17: a disconnect() whose close() raises ends in that exception with
\* _client_api still set, so is_connected() stays True; the client stays
\* bound through every call but reset_api() and a disconnect() that returns,
\* and a connect() made while it is bound raises the duplicate-client
\* exception; after either of those two a connect() succeeds.
C17_Cleared ==
    \/ lastOp.op = "reset_api"
    \/ lastOp.op = "disconnect" /\ lastOp.err = NoError

C17_CloseFailureKeepsClient ==
    [][ /\ (client_api # None /\ Disconnect(TRUE))
            => /\ lastOp'.err = CloseError
               /\ lastOp'.closed = <<client_api>>
               /\ client_api' = client_api
               /\ is_connected'
        /\ (/\ lastOp.op = "disconnect" /\ lastOp.err = CloseError
            /\ lastOp'.op = "connect")
            => (lastOp'.err = DuplicateClient /\ client_api' = client_api)
        /\ (is_connected /\ ~C17_Cleared')
            => (is_connected' /\ client_api' = client_api)
        /\ (C17_Cleared /\ lastOp'.op = "connect")
            => (lastOp'.err = NoError /\ is_connected') ]_vars

C17_Witness ==
    /\ lastOp.op = "disconnect"
    /\ lastOp.err = CloseError
    /\ lastOp.closed = <<ClientAPI(1)>>
    /\ client_api = ClientAPI(1)
    /\ is_connected

====
